---- MODULE Spec2Model ----
(***************************************************************************)
(* Stroke capture of the signature components PanResponderSignature and    *)
(* CustomSignature: touch samples are buffered per stroke, turned into an  *)
(* SVG path string of M and Q commands, and finalized strokes are kept in  *)
(* a list whose join is handed to the host's onSignatureChange callback.   *)
(*                                                                         *)
(* A JavaScript string is modelled as the sequence of its characters, so   *)
(* the template literals, the concatenations and Array.join are modelled   *)
(* character by character.  React state is modelled as the state value     *)
(* plus the value the handlers captured at the last render (closure).      *)
(***************************************************************************)
EXTENDS Integers, Sequences, FiniteSets, TLC

VARIABLES
    mounted,         \* which signature component receives the touch events
    completedPaths,  \* PanResponderSignature: useState<string[]>
    currentPath,     \* PanResponderSignature: useState<string>
    currentPoints,   \* PanResponderSignature: useRef<Point[]>
    isDrawing,       \* PanResponderSignature, CanvasSignature: useState(false)
    paths,           \* CustomSignature: useState<string[]>
    pathData,        \* CustomSignature: useState<string>
    currentPathRef,  \* CustomSignature: currentPath = useRef<Point[]>
    closure,         \* state values captured by the handlers at the last render
    callbacks,       \* payloads handed to onSignatureChange by the last event
    event,           \* the input event processed last
    returned,        \* value returned by the last event, a getSignatureData call
    genPoints,       \* argument of a direct call of pointsToSVGPath
    genPath,         \* result of that call
    contextRef,      \* CanvasSignature: useRef<any>(null), the 2d context
    lastPoint,       \* CanvasSignature: useRef<TouchPoint | null>(null)
    scheduling,      \* whether React re-renders before the next event
    host,            \* the screen that hosts the component
    signatureData,   \* host screen: useState<string>('')
    strokeColor,     \* the strokeColor prop the host passes to the component
    strokeWidth,     \* the strokeWidth prop the host passes to the component
    clipboard,       \* the document last written by Clipboard.setString
    alert            \* title of the Alert shown by the last event

vars == <<mounted, completedPaths, currentPath, currentPoints, isDrawing,
          paths, pathData, currentPathRef, closure, callbacks, event,
          returned, genPoints, genPath, contextRef, lastPoint, scheduling,
          host, signatureData, strokeColor, strokeWidth, clipboard, alert>>

prsVars == <<completedPaths, currentPath, currentPoints, isDrawing>>
csVars == <<paths, pathData, currentPathRef>>
genVars == <<genPoints, genPath>>
canvasVars == <<contextRef, lastPoint>>
hostVars == <<host, signatureData, strokeColor, strokeWidth, clipboard, alert>>

(***************************************************************************)
(* Bounds                                                                  *)
(***************************************************************************)
\* most touch samples held by a component (finalized strokes and buffer)
MaxSamples == 3
\* longest point list handed to the generator directly
MaxGenPoints == 3
\* most touch samples held when re-renders may come late
MaxStaleSamples == 2
\* most touch samples held by a component on a host screen
MaxHostSamples == 2

\* the touch samples the input stream draws from (locationX, locationY)
Pt(x, y) == [x |-> x, y |-> y]
Points == {Pt(0, 0), Pt(10, 0), Pt(10, 10), Pt(5, 5), Pt(1, 1), Pt(2, 2)}

PRS == "PanResponderSignature"
CS == "CustomSignature"
CANVAS == "CanvasSignature"

\* the screens that host a component, and no screen at all
NoHost == "none"
PanResponderSignatureScreen == "PanResponderSignatureScreen"
GestureHandlerSignatureScreen == "GestureHandlerSignatureScreen"
EnhancedCustomSignatureScreen == "EnhancedCustomSignatureScreen"
SignatureComparisonScreen == "SignatureComparisonScreen"

\* the clipboard before anything was copied
NoDocument == [d |-> <<>>, stroke |-> "", strokeWidth |-> 0]

\* variant: the render contains a Canvas element with ref={handleCanvas}
handleCanvasAttached_OnCanvas == TRUE

\* whether a rendered element takes handleCanvas as its ref: the component
\* renders a placeholder View and no Canvas element
handleCanvasAttached == FALSE

(***************************************************************************)
(* Strings                                                                 *)
(***************************************************************************)
DigitChars == <<"0", "1", "2", "3", "4", "5", "6", "7", "8", "9">>

\* String(n) of a non-negative integer n
RECURSIVE IntToString(_)
IntToString(n) ==
    IF n < 10 THEN <<DigitChars[n + 1]>>
    ELSE IntToString(n \div 10) \o <<DigitChars[(n % 10) + 1]>>

\* String((a + b) / 2) for integers a, b, given s = a + b
HalfToString(s) ==
    IF s % 2 = 0 THEN IntToString(s \div 2)
    ELSE IntToString(s \div 2) \o <<".", "5">>

\* Array.prototype.join(' ')
RECURSIVE JoinSpace(_)
JoinSpace(arr) ==
    IF Len(arr) = 0 THEN <<>>
    ELSE IF Len(arr) = 1 THEN arr[1]
    ELSE arr[1] \o <<" ">> \o JoinSpace(Tail(arr))

(***************************************************************************)
(* Curve generation                                                        *)
(***************************************************************************)
\* `M${x},${y}`
MoveCommand(p) == <<"M">> \o IntToString(p.x) \o <<",">> \o IntToString(p.y)

\* variant: the curve ends at the new point instead of the midpoint
CurveCommand_EndsAtPoint(prevPoint, currentPoint) ==
    <<"Q">> \o IntToString(prevPoint.x) \o <<",">> \o IntToString(prevPoint.y)
        \o <<" ">> \o IntToString(currentPoint.x)
        \o <<",">> \o IntToString(currentPoint.y)

\* `Q${prevPoint.x},${prevPoint.y} ${controlX},${controlY}`
CurveCommand(prevPoint, currentPoint) ==
    <<"Q">> \o IntToString(prevPoint.x) \o <<",">> \o IntToString(prevPoint.y)
        \o <<" ">> \o HalfToString(prevPoint.x + currentPoint.x)
        \o <<",">> \o HalfToString(prevPoint.y + currentPoint.y)

\* the loop of pointsToSVGPath, from index i on
RECURSIVE CurveLoop(_, _)
CurveLoop(points, i) ==
    IF i > Len(points) THEN <<>>
    ELSE CurveCommand(points[i - 1], points[i]) \o CurveLoop(points, i + 1)

\* variant: the loop starts one point late
pointsToSVGPath_LoopFromThird(points) ==
    IF Len(points) = 0 THEN <<>>
    ELSE IF Len(points) = 1 THEN MoveCommand(points[1])
    ELSE MoveCommand(points[1]) \o CurveLoop(points, 3)

\* variant: a single point is drawn as a zero-length curve
pointsToSVGPath_DotCurve(points) ==
    IF Len(points) = 0 THEN <<>>
    ELSE IF Len(points) = 1
    THEN MoveCommand(points[1]) \o CurveCommand(points[1], points[1])
    ELSE MoveCommand(points[1]) \o CurveLoop(points, 2)

pointsToSVGPath(points) ==
    IF Len(points) = 0 THEN <<>>
    ELSE IF Len(points) = 1 THEN MoveCommand(points[1])
    ELSE MoveCommand(points[1]) \o CurveLoop(points, 2)

(***************************************************************************)
(* Initial state: the component is mounted, nothing has been drawn         *)
(***************************************************************************)
\* state of a freshly mounted component of any kind, on any screen
Mounted ==
    /\ completedPaths = <<>>
    /\ currentPath = <<>>
    /\ currentPoints = <<>>
    /\ isDrawing = FALSE
    /\ paths = <<>>
    /\ pathData = <<>>
    /\ currentPathRef = <<>>
    /\ closure = [isDrawing |-> FALSE, currentPath |-> <<>>,
                  completedPaths |-> <<>>, pathData |-> <<>>, paths |-> <<>>]
    /\ callbacks = <<>>
    /\ event = "mount"
    /\ returned = <<>>
    /\ genPoints = <<>>
    /\ genPath = <<>>
    /\ contextRef = IF handleCanvasAttached THEN "context" ELSE "null"
    /\ lastPoint = <<>>
    /\ signatureData = <<>>
    /\ clipboard = NoDocument
    /\ alert = <<>>

\* a component on its own, with its default props, re-rendered after each event
Init ==
    /\ mounted \in {PRS, CS, CANVAS}
    /\ scheduling = "sync"
    /\ host = NoHost
    /\ strokeColor = "#000000"
    /\ strokeWidth = 3
    /\ Mounted

\* the state values as a render started now would capture them
Captured ==
    [isDrawing |-> isDrawing', currentPath |-> currentPath',
     completedPaths |-> completedPaths', pathData |-> pathData',
     paths |-> paths']

\* a render: the handlers of the next event capture the current state values;
\* under deferred scheduling the render is a step of its own (Rerender)
Render ==
    closure' = IF scheduling = "deferred" THEN closure ELSE Captured

\* the state values the handlers of an up-to-date render hold
Current ==
    [isDrawing |-> isDrawing, currentPath |-> currentPath,
     completedPaths |-> completedPaths, pathData |-> pathData,
     paths |-> paths]

\* onSignatureChange?.(data): the payload is handed to the host
onSignatureChange(data) == callbacks' = <<data>>

\* an event during which onSignatureChange is not called
NoCallback == callbacks' = <<>>

\* the host's handleSignatureChange stores each payload of the event
handleSignatureChange ==
    signatureData' = IF host # NoHost /\ callbacks' # <<>>
                     THEN callbacks'[1]
                     ELSE signatureData

\* what an event of the component means to the screen around it
Notified ==
    /\ handleSignatureChange
    /\ alert' = <<>>
    /\ UNCHANGED <<scheduling, host, strokeColor, strokeWidth, clipboard>>

\* number of touch samples a list of path strings was built from
RECURSIVE CommandCount(_)
CommandCount(str) ==
    IF Len(str) = 0 THEN 0
    ELSE (IF Head(str) \in {"M", "Q"} THEN 1 ELSE 0) + CommandCount(Tail(str))

\* the bound on the samples held that applies to this run
SampleBound ==
    IF scheduling = "deferred" THEN MaxStaleSamples
    ELSE IF host # NoHost THEN MaxHostSamples
    ELSE MaxSamples

SamplesHeld ==
    IF mounted = PRS
    THEN CommandCount(JoinSpace(completedPaths)) + Len(currentPoints)
    ELSE CommandCount(JoinSpace(paths)) + CommandCount(pathData)

\* an end event that handlers of an old render process again can finalize
\* the same path once more: the drawing that results stays within the bound
EndBounded ==
    scheduling = "deferred" =>
        CommandCount(JoinSpace(IF mounted = PRS THEN completedPaths ELSE paths))
          + CommandCount(IF mounted = PRS THEN closure.currentPath
                                          ELSE closure.pathData) <= SampleBound

(***************************************************************************)
(* PanResponderSignature                                                   *)
(***************************************************************************)
\* variant: a sample at the position of the previous one is dropped
addPoint_SkipsRepeated(points, p) ==
    /\ currentPoints' = IF Len(points) > 0 /\ points[Len(points)] = p
                        THEN points
                        ELSE Append(points, p)
    /\ currentPath' = pointsToSVGPath(currentPoints')

\* addPoint, on a buffer that holds points
addPoint(points, p) ==
    /\ currentPoints' = Append(points, p)
    /\ currentPath' = pointsToSVGPath(currentPoints')

\* variant: a new stroke starts a new drawing
startStroke_ClearsFinalized(p) ==
    /\ isDrawing' = TRUE
    /\ addPoint(<<>>, p)
    /\ completedPaths' = <<>>
    /\ NoCallback

\* variant: the buffer is not emptied at the start of a stroke
startStroke_KeepsBuffer(p) ==
    /\ isDrawing' = TRUE
    /\ addPoint(currentPoints, p)
    /\ UNCHANGED completedPaths
    /\ NoCallback

\* variant: the start point is buffered but the path is not set
startStroke_NoPath(p) ==
    /\ isDrawing' = TRUE
    /\ currentPoints' = <<p>>
    /\ currentPath' = <<>>
    /\ UNCHANGED completedPaths
    /\ NoCallback

startStroke(p) ==
    /\ isDrawing' = TRUE
    /\ addPoint(<<>>, p)
    /\ UNCHANGED completedPaths
    /\ NoCallback

\* variant: a move is recorded whether or not a stroke is active
continueStroke_NoGuard(p) ==
    /\ addPoint(currentPoints, p)
    /\ UNCHANGED <<isDrawing, completedPaths>>
    /\ NoCallback

continueStroke(p) ==
    IF ~closure.isDrawing
    THEN UNCHANGED prsVars /\ NoCallback
    ELSE /\ addPoint(currentPoints, p)
         /\ UNCHANGED <<isDrawing, completedPaths>>
         /\ NoCallback

\* variant: the finished stroke is put in front of the list
endStroke_Prepends ==
    IF ~closure.isDrawing \/ closure.currentPath = <<>>
    THEN UNCHANGED prsVars /\ NoCallback
    ELSE /\ isDrawing' = FALSE
         /\ completedPaths' = <<closure.currentPath>> \o completedPaths
         /\ onSignatureChange(
                JoinSpace(<<closure.currentPath>> \o closure.completedPaths))
         /\ currentPath' = <<>>
         /\ currentPoints' = <<>>

\* variant: a stroke of a single point is dropped
endStroke_DropsTap ==
    IF ~closure.isDrawing \/ closure.currentPath = <<>>
    THEN UNCHANGED prsVars /\ NoCallback
    ELSE /\ isDrawing' = FALSE
         /\ IF Len(currentPoints) < 2
            THEN UNCHANGED completedPaths /\ NoCallback
            ELSE /\ completedPaths' = Append(completedPaths, closure.currentPath)
                 /\ onSignatureChange(
                        JoinSpace(Append(closure.completedPaths, closure.currentPath)))
         /\ currentPath' = <<>>
         /\ currentPoints' = <<>>

\* variant: the host is not told
endStroke_Silent ==
    IF ~closure.isDrawing \/ closure.currentPath = <<>>
    THEN UNCHANGED prsVars /\ NoCallback
    ELSE /\ isDrawing' = FALSE
         /\ completedPaths' = Append(completedPaths, closure.currentPath)
         /\ NoCallback
         /\ currentPath' = <<>>
         /\ currentPoints' = <<>>

\* variant: an end is not guarded and finalizes whatever the path is
endStroke_NoGuard ==
    /\ isDrawing' = FALSE
    /\ completedPaths' = Append(completedPaths, closure.currentPath)
    /\ onSignatureChange(
           JoinSpace(Append(closure.completedPaths, closure.currentPath)))
    /\ currentPath' = <<>>
    /\ currentPoints' = <<>>

endStroke ==
    IF ~closure.isDrawing \/ closure.currentPath = <<>>
    THEN UNCHANGED prsVars /\ NoCallback
    ELSE /\ isDrawing' = FALSE
         /\ completedPaths' = Append(completedPaths, closure.currentPath)
         /\ onSignatureChange(
                JoinSpace(Append(closure.completedPaths, closure.currentPath)))
         /\ currentPath' = <<>>
         /\ currentPoints' = <<>>

\* variant: the in-progress path is appended even when it is empty
getSignatureData_AlwaysAppends ==
    JoinSpace(Append(closure.completedPaths, closure.currentPath))

\* getSignatureData, as the handlers of the last render see it
getSignatureData ==
    JoinSpace(IF closure.currentPath # <<>>
              THEN Append(closure.completedPaths, closure.currentPath)
              ELSE closure.completedPaths)

\* variant: reading the drawing drops the in-progress path
callGetSignatureData_Consumes ==
    /\ mounted = PRS
    /\ returned' = getSignatureData
    /\ event' = "getSignatureData"
    /\ NoCallback
    /\ currentPath' = <<>>
    /\ UNCHANGED <<mounted, completedPaths, currentPoints, isDrawing,
                   csVars, genVars, canvasVars>>
    /\ Notified
    /\ Render

\* a call of getSignatureData between two events
callGetSignatureData ==
    /\ mounted = PRS
    /\ returned' = getSignatureData
    /\ event' = "getSignatureData"
    /\ NoCallback
    /\ UNCHANGED <<mounted, prsVars, csVars, genVars, canvasVars, closure>>
    /\ Notified

onPanResponderGrant(p) ==
    /\ mounted = PRS
    /\ CommandCount(JoinSpace(completedPaths)) < SampleBound
    /\ startStroke(p)
    /\ event' = "grant"
    /\ returned' = <<>>
    /\ UNCHANGED <<mounted, csVars, genVars, canvasVars>>
    /\ Notified
    /\ Render

onPanResponderMove(p) ==
    /\ mounted = PRS
    /\ SamplesHeld < SampleBound
    /\ continueStroke(p)
    /\ event' = "move"
    /\ returned' = <<>>
    /\ UNCHANGED <<mounted, csVars, genVars, canvasVars>>
    /\ Notified
    /\ Render

onPanResponderRelease ==
    /\ mounted = PRS
    /\ EndBounded
    /\ endStroke
    /\ event' = "release"
    /\ returned' = <<>>
    /\ UNCHANGED <<mounted, csVars, genVars, canvasVars>>
    /\ Notified
    /\ Render

\* variant: a cancelled stroke is discarded
onPanResponderTerminate_Discards ==
    /\ mounted = PRS
    /\ isDrawing' = FALSE
    /\ currentPath' = <<>>
    /\ currentPoints' = <<>>
    /\ UNCHANGED completedPaths
    /\ NoCallback
    /\ event' = "terminate"
    /\ returned' = <<>>
    /\ UNCHANGED <<mounted, csVars, genVars, canvasVars>>
    /\ Notified
    /\ Render

onPanResponderTerminate ==
    /\ mounted = PRS
    /\ EndBounded
    /\ endStroke
    /\ event' = "terminate"
    /\ returned' = <<>>
    /\ UNCHANGED <<mounted, csVars, genVars, canvasVars>>
    /\ Notified
    /\ Render

\* variant: the finalized strokes survive the reset
clearSignature_KeepsCompleted ==
    /\ mounted = PRS
    /\ UNCHANGED completedPaths
    /\ currentPath' = <<>>
    /\ currentPoints' = <<>>
    /\ isDrawing' = FALSE
    /\ NoCallback
    /\ event' = "clear"
    /\ returned' = <<>>
    /\ UNCHANGED <<mounted, csVars, genVars, canvasVars>>
    /\ Notified
    /\ Render

clearSignature ==
    /\ mounted = PRS
    /\ completedPaths' = <<>>
    /\ currentPath' = <<>>
    /\ currentPoints' = <<>>
    /\ isDrawing' = FALSE
    /\ NoCallback
    /\ event' = "clear"
    /\ returned' = <<>>
    /\ UNCHANGED <<mounted, csVars, genVars, canvasVars>>
    /\ Notified
    /\ Render

(***************************************************************************)
(* CustomSignature                                                         *)
(***************************************************************************)
\* variant: the new segment replaces the path instead of extending it
csAddPoint_ReplacesPath(p) ==
    /\ currentPathRef' = Append(currentPathRef, p)
    /\ IF Len(currentPathRef') = 1
       THEN pathData' = MoveCommand(p)
       ELSE pathData' =
                CurveCommand(currentPathRef'[Len(currentPathRef') - 1],
                             currentPathRef'[Len(currentPathRef')])
    /\ UNCHANGED paths
    /\ NoCallback

\* variant: the curve segment is appended after a separating space
csAddPoint_SpaceBeforeCurve(p) ==
    /\ currentPathRef' = Append(currentPathRef, p)
    /\ IF Len(currentPathRef') = 1
       THEN pathData' = MoveCommand(p)
       ELSE pathData' = pathData \o <<" ">> \o
                CurveCommand(currentPathRef'[Len(currentPathRef') - 1],
                             currentPathRef'[Len(currentPathRef')])
    /\ UNCHANGED paths
    /\ NoCallback

csAddPoint(p) ==
    /\ currentPathRef' = Append(currentPathRef, p)
    /\ IF Len(currentPathRef') = 1
       THEN pathData' = MoveCommand(p)
       ELSE pathData' = pathData \o
                CurveCommand(currentPathRef'[Len(currentPathRef') - 1],
                             currentPathRef'[Len(currentPathRef')])
    /\ UNCHANGED paths
    /\ NoCallback

\* variant: the payload leaves out the stroke just finished
finalizePath_PayloadWithoutLast ==
    IF closure.pathData # <<>>
    THEN /\ paths' = Append(paths, closure.pathData)
         /\ onSignatureChange(JoinSpace(closure.paths))
         /\ pathData' = <<>>
         /\ currentPathRef' = <<>>
    ELSE UNCHANGED csVars /\ NoCallback

\* variant: the point buffer is not emptied
finalizePath_KeepsBuffer ==
    IF closure.pathData # <<>>
    THEN /\ paths' = Append(paths, closure.pathData)
         /\ onSignatureChange(
                JoinSpace(Append(closure.paths, closure.pathData)))
         /\ pathData' = <<>>
         /\ UNCHANGED currentPathRef
    ELSE UNCHANGED csVars /\ NoCallback

\* variant: the end of a gesture notifies whether or not a path was drawn
finalizePath_NoGuard ==
    /\ paths' = Append(paths, closure.pathData)
    /\ onSignatureChange(JoinSpace(Append(closure.paths, closure.pathData)))
    /\ pathData' = <<>>
    /\ currentPathRef' = <<>>

finalizePath ==
    IF closure.pathData # <<>>
    THEN /\ paths' = Append(paths, closure.pathData)
         /\ onSignatureChange(
                JoinSpace(Append(closure.paths, closure.pathData)))
         /\ pathData' = <<>>
         /\ currentPathRef' = <<>>
    ELSE UNCHANGED csVars /\ NoCallback

onUpdate(p) ==
    /\ mounted = CS
    /\ SamplesHeld < SampleBound
    /\ csAddPoint(p)
    /\ event' = "update"
    /\ returned' = <<>>
    /\ UNCHANGED <<mounted, prsVars, genVars, canvasVars>>
    /\ Notified
    /\ Render

onEnd ==
    /\ mounted = CS
    /\ EndBounded
    /\ finalizePath
    /\ event' = "end"
    /\ returned' = <<>>
    /\ UNCHANGED <<mounted, prsVars, genVars, canvasVars>>
    /\ Notified
    /\ Render

(***************************************************************************)
(* CanvasSignature.  The drawing context is a ref that only handleCanvas   *)
(* sets; the pixels drawn through the context are not modelled.            *)
(***************************************************************************)
\* the string canvasRef.current.toDataURL() resolves to
DataURL == <<"d", "a", "t", "a", ":">>

startDrawing(p) ==
    IF contextRef = "null"
    THEN UNCHANGED <<isDrawing, lastPoint>>
    ELSE /\ isDrawing' = TRUE
         /\ lastPoint' = <<p>>

continuDrawing(p) ==
    IF contextRef = "null" \/ ~closure.isDrawing \/ lastPoint = <<>>
    THEN UNCHANGED <<isDrawing, lastPoint>>
    ELSE /\ lastPoint' = <<p>>
         /\ UNCHANGED isDrawing

endDrawing ==
    IF contextRef = "null" \/ ~closure.isDrawing
    THEN UNCHANGED <<isDrawing, lastPoint>> /\ NoCallback
    ELSE /\ isDrawing' = FALSE
         /\ lastPoint' = <<>>
         /\ onSignatureChange(DataURL)

\* what every touch event of the canvas leaves alone
CanvasFrame ==
    /\ returned' = <<>>
    /\ UNCHANGED <<mounted, completedPaths, currentPath, currentPoints,
                   csVars, genVars, contextRef>>
    /\ Notified
    /\ Render

canvasGrant(p) ==
    /\ mounted = CANVAS
    /\ startDrawing(p)
    /\ NoCallback
    /\ event' = "canvasGrant"
    /\ CanvasFrame

canvasMove(p) ==
    /\ mounted = CANVAS
    /\ continuDrawing(p)
    /\ NoCallback
    /\ event' = "canvasMove"
    /\ CanvasFrame

canvasRelease ==
    /\ mounted = CANVAS
    /\ endDrawing
    /\ event' = "canvasRelease"
    /\ CanvasFrame

canvasTerminate ==
    /\ mounted = CANVAS
    /\ endDrawing
    /\ event' = "canvasTerminate"
    /\ CanvasFrame

(***************************************************************************)
(* Specifications                                                          *)
(***************************************************************************)
Next ==
    \/ \E p \in Points : onPanResponderGrant(p)
    \/ \E p \in Points : onPanResponderMove(p)
    \/ onPanResponderRelease
    \/ onPanResponderTerminate
    \/ clearSignature
    \/ callGetSignatureData
    \/ \E p \in Points : onUpdate(p)
    \/ onEnd
    \/ \E p \in Points : canvasGrant(p)
    \/ \E p \in Points : canvasMove(p)
    \/ canvasRelease
    \/ canvasTerminate

Spec == Init /\ [][Next]_vars

\* React re-renders the component some time after an event
Rerender ==
    /\ scheduling = "deferred"
    /\ closure # Current
    /\ event' = "render"
    /\ callbacks' = <<>>
    /\ returned' = <<>>
    /\ alert' = <<>>
    /\ UNCHANGED <<mounted, prsVars, csVars, genVars, canvasVars, scheduling,
                   host, signatureData, strokeColor, strokeWidth, clipboard>>
    /\ closure' = Captured

\* a component whose re-render may come after further events
StaleInit ==
    /\ mounted \in {PRS, CS}
    /\ scheduling = "deferred"
    /\ host = NoHost
    /\ strokeColor = "#000000"
    /\ strokeWidth = 3
    /\ Mounted

StaleNext ==
    \/ \E p \in Points : onPanResponderGrant(p)
    \/ \E p \in Points : onPanResponderMove(p)
    \/ onPanResponderRelease
    \/ onPanResponderTerminate
    \/ clearSignature
    \/ callGetSignatureData
    \/ \E p \in Points : onUpdate(p)
    \/ onEnd
    \/ Rerender

StaleSpec == StaleInit /\ [][StaleNext]_vars

(***************************************************************************)
(* Host screens.  A screen keeps the last payload in signatureData, offers *)
(* Clear and Copy SVG, and passes strokeColor and strokeWidth to the       *)
(* component.  The SVG document is modelled by the values substituted for  *)
(* the path data, the stroke and the stroke-width of its path element.     *)
(* No screen calls clearSignature or getSignatureData of the component.    *)
(***************************************************************************)
\* the screens and the component of each that receives the touch events
Hosted ==
    {<<PanResponderSignatureScreen, PRS>>,
     <<GestureHandlerSignatureScreen, CS>>,
     <<EnhancedCustomSignatureScreen, CS>>,
     <<SignatureComparisonScreen, PRS>>,
     <<SignatureComparisonScreen, CS>>,
     <<SignatureComparisonScreen, CANVAS>>}

\* the options of the enhanced screen's width and colour buttons drawn from
StrokeWidths == {3, 5}
StrokeColors == {"#000000", "#2196F3"}

\* the strokeColor and strokeWidth props a screen mounts its component with
ScreenProps(screen, component) ==
    IF screen = PanResponderSignatureScreen
    THEN [strokeColor |-> "#FF9800", strokeWidth |-> 4]
    ELSE IF screen = GestureHandlerSignatureScreen
    THEN [strokeColor |-> "#9C27B0", strokeWidth |-> 4]
    ELSE IF screen = EnhancedCustomSignatureScreen
    THEN [strokeColor |-> "#000000", strokeWidth |-> 3]
    ELSE IF component = PRS
    THEN [strokeColor |-> "#FF9800", strokeWidth |-> 3]
    ELSE IF component = CS
    THEN [strokeColor |-> "#9C27B0", strokeWidth |-> 3]
    ELSE [strokeColor |-> "#4CAF50", strokeWidth |-> 3]

\* a component mounted on one of the screens
HostInit ==
    /\ \E pair \in Hosted :
          /\ host = pair[1]
          /\ mounted = pair[2]
          /\ strokeColor = ScreenProps(pair[1], pair[2]).strokeColor
          /\ strokeWidth = ScreenProps(pair[1], pair[2]).strokeWidth
    /\ scheduling = "sync"
    /\ Mounted

\* the stroke and stroke-width every path of the component is rendered with
RenderedStroke == [stroke |-> strokeColor, strokeWidth |-> strokeWidth]

\* variant: the single-component screens export the comparison screen's width
SvgDocument_WidthThree(data) ==
    IF host = PanResponderSignatureScreen
    THEN [d |-> data, stroke |-> "#FF9800", strokeWidth |-> 3]
    ELSE IF host = GestureHandlerSignatureScreen
    THEN [d |-> data, stroke |-> "#9C27B0", strokeWidth |-> 3]
    ELSE IF host = EnhancedCustomSignatureScreen
    THEN [d |-> data, stroke |-> strokeColor, strokeWidth |-> strokeWidth]
    ELSE IF mounted = CANVAS
    THEN [d |-> data, stroke |-> "", strokeWidth |-> 0]
    ELSE [d |-> data,
          stroke |-> IF mounted = PRS THEN "#FF9800" ELSE "#9C27B0",
          strokeWidth |-> 3]

\* the document the screen's copy handler builds around the path data
SvgDocument(data) ==
    IF host = PanResponderSignatureScreen
    THEN [d |-> data, stroke |-> "#FF9800", strokeWidth |-> 4]
    ELSE IF host = GestureHandlerSignatureScreen
    THEN [d |-> data, stroke |-> "#9C27B0", strokeWidth |-> 4]
    ELSE IF host = EnhancedCustomSignatureScreen
    THEN [d |-> data, stroke |-> strokeColor, strokeWidth |-> strokeWidth]
    ELSE IF mounted = CANVAS
    THEN [d |-> data, stroke |-> "", strokeWidth |-> 0]
    ELSE [d |-> data,
          stroke |-> IF mounted = PRS THEN "#FF9800" ELSE "#9C27B0",
          strokeWidth |-> 3]

\* titles of the alerts of the copy handlers
CopiedTitle == IF host = EnhancedCustomSignatureScreen THEN "Copied!" ELSE "Success"
NothingToCopyTitle ==
    IF host = EnhancedCustomSignatureScreen THEN "Error" ELSE "No Signature"

\* what a button of the screen leaves alone in the component
ScreenFrame ==
    /\ callbacks' = <<>>
    /\ returned' = <<>>
    /\ UNCHANGED <<mounted, prsVars, csVars, genVars, canvasVars, closure,
                   scheduling, host>>

\* variant: the document is written whether or not there is a signature
copySVG_NoGuard ==
    /\ host # NoHost
    /\ clipboard' = SvgDocument(signatureData)
    /\ alert' = <<CopiedTitle>>
    /\ event' = "copySVG"
    /\ UNCHANGED <<signatureData, strokeColor, strokeWidth>>
    /\ ScreenFrame

\* copySVG / copySvgData / copySVGData(type)
copySVG ==
    /\ host # NoHost
    /\ IF signatureData # <<>>
       THEN /\ clipboard' = SvgDocument(signatureData)
            /\ alert' = <<CopiedTitle>>
       ELSE /\ UNCHANGED clipboard
            /\ alert' = <<NothingToCopyTitle>>
    /\ event' = "copySVG"
    /\ UNCHANGED <<signatureData, strokeColor, strokeWidth>>
    /\ ScreenFrame

\* variant: Clear also empties the component
screenClearSignature_ResetsComponent ==
    /\ host # NoHost
    /\ signatureData' = <<>>
    /\ alert' = <<>>
    /\ event' = "screenClear"
    /\ callbacks' = <<>>
    /\ returned' = <<>>
    /\ completedPaths' = <<>>
    /\ currentPath' = <<>>
    /\ currentPoints' = <<>>
    /\ isDrawing' = FALSE
    /\ paths' = <<>>
    /\ pathData' = <<>>
    /\ currentPathRef' = <<>>
    /\ UNCHANGED <<mounted, genVars, canvasVars, scheduling, host,
                   strokeColor, strokeWidth, clipboard>>
    /\ closure' = Captured

\* the screen's clearSignature / clearAllSignatures
screenClearSignature ==
    /\ host # NoHost
    /\ signatureData' = <<>>
    /\ alert' = <<>>
    /\ event' = "screenClear"
    /\ UNCHANGED <<strokeColor, strokeWidth, clipboard>>
    /\ ScreenFrame

changeStrokeWidth(newStrokeWidth) ==
    /\ host = EnhancedCustomSignatureScreen
    /\ strokeWidth' = newStrokeWidth
    /\ alert' = <<>>
    /\ event' = "changeStrokeWidth"
    /\ UNCHANGED <<signatureData, strokeColor, clipboard>>
    /\ ScreenFrame

changeStrokeColor(newColor) ==
    /\ host = EnhancedCustomSignatureScreen
    /\ strokeColor' = newColor
    /\ alert' = <<>>
    /\ event' = "changeStrokeColor"
    /\ UNCHANGED <<signatureData, strokeWidth, clipboard>>
    /\ ScreenFrame

HostNext ==
    \/ \E p \in Points : onPanResponderGrant(p)
    \/ \E p \in Points : onPanResponderMove(p)
    \/ onPanResponderRelease
    \/ onPanResponderTerminate
    \/ \E p \in Points : onUpdate(p)
    \/ onEnd
    \/ \E p \in Points : canvasGrant(p)
    \/ \E p \in Points : canvasMove(p)
    \/ canvasRelease
    \/ canvasTerminate
    \/ copySVG
    \/ screenClearSignature
    \/ \E newStrokeWidth \in StrokeWidths : changeStrokeWidth(newStrokeWidth)
    \/ \E newColor \in StrokeColors : changeStrokeColor(newColor)

HostSpec == HostInit /\ [][HostNext]_vars

\* a direct call of the generator on an arbitrary point list
RECURSIVE PointLists(_)
PointLists(n) ==
    IF n = 0 THEN {<<>>}
    ELSE LET shorter == PointLists(n - 1)
         IN  shorter \cup {Append(l, p) : l \in {s \in shorter : Len(s) = n - 1},
                                          p \in Points}

Generate(points) ==
    /\ genPoints' = points
    /\ genPath' = pointsToSVGPath(points)
    /\ event' = "pointsToSVGPath"
    /\ UNCHANGED <<mounted, prsVars, csVars, closure, callbacks, returned,
                   canvasVars, scheduling, hostVars>>

GenNext == \E points \in PointLists(MaxGenPoints) : Generate(points)

GenSpec == Init /\ [][GenNext]_vars

(***************************************************************************)
(* Reading a path string back: the commands an SVG renderer sees in the d  *)
(* attribute.  Numbers are read in half units (twice their value), so that *)
(* a midpoint such as 2.5 is the integer 5.                                *)
(***************************************************************************)
Last(seq) == seq[Len(seq)]
Front(seq) == SubSeq(seq, 1, Len(seq) - 1)

\* the string cut before every command letter
RECURSIVE SplitCommands(_)
SplitCommands(str) ==
    IF Len(str) = 0 THEN <<>>
    ELSE LET front == SplitCommands(Front(str))
             c == Last(str)
         IN  IF c \in {"M", "Q"} \/ Len(front) = 0
             THEN Append(front, <<c>>)
             ELSE [front EXCEPT ![Len(front)] = Append(@, c)]

\* the text between the separators "," and " " (empty fields included)
RECURSIVE SplitFields(_)
SplitFields(str) ==
    IF Len(str) = 0 THEN << <<>> >>
    ELSE LET front == SplitFields(Front(str))
             c == Last(str)
         IN  IF c \in {",", " "}
             THEN Append(front, <<>>)
             ELSE [front EXCEPT ![Len(front)] = Append(@, c)]

DigitValue(c) == CHOOSE d \in 0..9 : DigitChars[d + 1] = c

\* a decimal number with at most the fraction .5, in half units; -1 if malformed
RECURSIVE ReadHalves(_)
ReadHalves(field) ==
    IF Len(field) = 0 THEN -1
    ELSE IF Len(field) >= 3 /\ field[Len(field) - 1] = "."
    THEN IF Last(field) = "5" /\ ReadHalves(SubSeq(field, 1, Len(field) - 2)) >= 0
         THEN ReadHalves(SubSeq(field, 1, Len(field) - 2)) + 1
         ELSE -1
    ELSE IF \E d \in 0..9 : DigitChars[d + 1] = Last(field)
    THEN IF Len(field) = 1 THEN 2 * DigitValue(Last(field))
         ELSE IF ReadHalves(Front(field)) >= 0
              THEN 10 * ReadHalves(Front(field)) + 2 * DigitValue(Last(field))
              ELSE -1
    ELSE -1

ReadCommand(chunk) ==
    LET fields == SelectSeq(SplitFields(Tail(chunk)), LAMBDA f : Len(f) > 0)
    IN  [cmd |-> Head(chunk),
         args |-> [i \in 1..Len(fields) |-> ReadHalves(fields[i])]]

ParsePath(str) ==
    LET chunks == SplitCommands(str)
    IN  [i \in 1..Len(chunks) |-> ReadCommand(chunks[i])]

MoveTo(p) == [cmd |-> "M", args |-> <<2 * p.x, 2 * p.y>>]
QuadraticCurveTo(anchor, p, q) ==
    [cmd |-> "Q", args |-> <<2 * anchor.x, 2 * anchor.y, p.x + q.x, p.y + q.y>>]

CountOf(cmds, letter) == Cardinality({i \in 1..Len(cmds) : cmds[i].cmd = letter})

IsPrefix(s, t) == Len(s) <= Len(t) /\ SubSeq(t, 1, Len(s)) = s

(***************************************************************************)
(* Properties                                                              *)
(***************************************************************************)
\* the buffer and in-progress path of the mounted component
Buffer == IF mounted = PRS THEN currentPoints ELSE currentPathRef
InProgress == IF mounted = PRS THEN currentPath ELSE pathData
Finalized == IF mounted = PRS THEN completedPaths ELSE paths

\* the step finalizes a stroke
StrokeFinalized == Len(Finalized') > Len(Finalized)

\* C1: a stroke of N >= 2 points (a start and N-1 updates) has a path that
\* begins with one move-command to the first point, has no other
\* move-command, and has exactly N-1 curve-commands.
C1_MoveThenCurves ==
    Len(Buffer) >= 2 =>
        LET cmds == ParsePath(InProgress)
        IN  /\ Len(cmds) >= 1
            /\ cmds[1] = MoveTo(Buffer[1])
            /\ CountOf(cmds, "M") = 1
            /\ CountOf(cmds, "Q") = Len(Buffer) - 1
            /\ Len(cmds) = Len(Buffer)

C1_Witness ==
    /\ mounted = PRS
    /\ event = "move"
    /\ Len(currentPoints) = 3
    /\ currentPoints[1] # currentPoints[2]

\* C2: the generator returns the empty path for zero points, and a single
\* move-command to the point with no curve-command for exactly one point.
C2_EmptyAndSingle ==
    event = "pointsToSVGPath" =>
        /\ Len(genPoints) = 0 => genPath = <<>>
        /\ Len(genPoints) = 1 => ParsePath(genPath) = <<MoveTo(genPoints[1])>>

C2_Witness ==
    /\ event = "pointsToSVGPath"
    /\ genPoints = <<Pt(5, 5)>>
    /\ genPath = <<"M", "5", ",", "5">>

\* the i-th curve-command of str has pts[i] as anchor and the midpoint of
\* pts[i] and pts[i+1] as destination (pts indexed from 1)
CurvesFollow(pts, str) ==
    Len(pts) >= 2 =>
        LET cmds == ParsePath(str)
        IN  /\ Len(cmds) = Len(pts)
            /\ \A i \in 1..(Len(pts) - 1) :
                   cmds[i + 1] = QuadraticCurveTo(pts[i], pts[i], pts[i + 1])

\* C3: for points p[0..N-1], N >= 2, the i-th curve-command has p[i-1] as
\* its anchor and the midpoint of p[i-1] and p[i] as its destination, both
\* in the in-progress path and in the path the stroke is finalized as.
C3_AnchorAndMidpoint ==
    [][/\ CurvesFollow(Buffer', InProgress')
       /\ StrokeFinalized => CurvesFollow(Buffer, Last(Finalized'))]_vars

\* begin(0,0), append(10,0), append(10,10), end(): M0,0Q0,0 5,0Q10,0 10,5
C3_Witness ==
    /\ event = "release"
    /\ completedPaths =
         << <<"M", "0", ",", "0",
              "Q", "0", ",", "0", " ", "5", ",", "0",
              "Q", "1", "0", ",", "0", " ", "1", "0", ",", "5">> >>
    /\ ParsePath(completedPaths[1]) =
         <<MoveTo(Pt(0, 0)),
           [cmd |-> "Q", args |-> <<0, 0, 10, 0>>],
           [cmd |-> "Q", args |-> <<20, 0, 20, 10>>]>>

\* the serialized drawing of the strokes done so far followed by stroke b
After(done, b) ==
    IF Len(done) = 0 THEN b ELSE JoinSpace(done) \o <<" ">> \o b

\* C4: when stroke B is completed after the strokes A.., the serialized
\* drawing is the serialized earlier strokes, the separator, and then the
\* whole of B's path: nothing of B precedes or splits A.
C4_AppendOrder ==
    [][StrokeFinalized =>
          /\ callbacks' = <<After(Finalized, pointsToSVGPath(Buffer))>>
          /\ mounted = PRS =>
                getSignatureData' = After(completedPaths, pointsToSVGPath(currentPoints))
          /\ ParsePath(callbacks'[1]) =
                ParsePath(JoinSpace(Finalized)) \o ParsePath(pointsToSVGPath(Buffer))]_vars

C4_Witness ==
    /\ event \in {"release", "end"}
    /\ Len(Finalized) = 2
    /\ Finalized[1] # Finalized[2]
    /\ CountOf(ParsePath(Finalized[1]), "Q") >= 1
    /\ callbacks = <<Finalized[1] \o <<" ">> \o Finalized[2]>>

\* C5: in every step that is not a reset, the finalized list before the
\* step is a prefix of the finalized list after it.
C5_FinalizedAppendOnly ==
    [][event' # "clear" =>
          /\ IsPrefix(completedPaths, completedPaths')
          /\ IsPrefix(paths, paths')]_vars

C5_Witness ==
    /\ Len(Finalized) = 1
    /\ Len(Buffer) = 2
    /\ event \in {"move", "update"}

\* C6: after reset() the drawing getDrawing() returns is empty: finalized
\* list, in-progress path and point buffer are empty and no stroke is active.
C6_ResetEmpties ==
    [][event' = "clear" =>
          /\ getSignatureData' = <<>>
          /\ completedPaths' = <<>>
          /\ currentPath' = <<>>
          /\ currentPoints' = <<>>
          /\ isDrawing' = FALSE]_vars

C6_Witness ==
    /\ event = "clear"
    /\ getSignatureData = <<>>
    /\ ~isDrawing

\* C7: a stroke terminated by Cancel leaves the same finalized list,
\* in-progress path, buffer and payload as the stroke terminated by End:
\* both keep the stroke as the path of its points.
C7_CancelAsEnd ==
    [][event' \in {"release", "terminate"} =>
          IF isDrawing /\ Len(currentPoints) > 0
          THEN /\ completedPaths' =
                    Append(completedPaths, pointsToSVGPath(currentPoints))
               /\ currentPath' = <<>>
               /\ currentPoints' = <<>>
               /\ isDrawing' = FALSE
               /\ callbacks' = <<JoinSpace(completedPaths')>>
          ELSE /\ UNCHANGED prsVars
               /\ callbacks' = <<>>]_vars

\* points (0,0),(5,5),(10,0), cancelled: M0,0Q0,0 2.5,2.5Q5,5 7.5,2.5
C7_Witness ==
    /\ event = "terminate"
    /\ completedPaths =
         << <<"M", "0", ",", "0",
              "Q", "0", ",", "0", " ", "2", ".", "5", ",", "2", ".", "5",
              "Q", "5", ",", "5", " ", "7", ".", "5", ",", "2", ".", "5">> >>
    /\ callbacks = <<completedPaths[1]>>

\* C8: a start immediately followed by an end is finalized as a move-only
\* path with no curve-command.
C8_TapIsMoveOnly ==
    [][event = "grant" /\ event' = "release" =>
          /\ Len(completedPaths') = Len(completedPaths) + 1
          /\ ParsePath(Last(completedPaths')) = <<MoveTo(currentPoints[1])>>
          /\ IsPrefix(completedPaths, completedPaths')]_vars

\* taps at (1,1) and (2,2): two move-only paths
C8_Witness ==
    /\ event = "release"
    /\ completedPaths = << <<"M", "1", ",", "1">>, <<"M", "2", ",", "2">> >>
    /\ callbacks = << <<"M", "1", ",", "1", " ", "M", "2", ",", "2">> >>

\* the step adds a point to the active stroke
PointAdded == Len(Buffer') = Len(Buffer) + 1 /\ Len(Buffer) >= 1

C10_PayloadIsDrawing ==
    [][\A i \in 1..Len(callbacks') :
          /\ callbacks'[i] = JoinSpace(Finalized')
          /\ callbacks'[i] = JoinSpace(Append(Finalized, InProgress))
          /\ CountOf(ParsePath(callbacks'[i]), "M") = Len(Finalized')]_vars

C10_Witness ==
    /\ Len(callbacks) = 1
    /\ Len(Finalized) = 3
    /\ callbacks[1] = Finalized[1] \o <<" ">> \o Finalized[2] \o <<" ">> \o Finalized[3]

\* the stroke state of the mounted component
Active == IF mounted = PRS THEN isDrawing ELSE Len(currentPathRef) > 0
EndEvents == {"release", "terminate", "end"}

\* C11: a start event while a stroke is active does not overwrite state:
\* the buffered points and the in-progress path of the active stroke are
\* not replaced by the new start point.
C11_StartWhileActiveKeepsStroke ==
    [][event' = "grant" /\ isDrawing /\ Len(currentPoints) > 0 =>
          /\ currentPoints' = currentPoints
          /\ currentPath' = currentPath]_vars

\* C12: a move event while no stroke is active is a no-op: no point is
\* recorded, the in-progress path stays empty, the finalized list is
\* unchanged, and the next stroke starts from its own start point alone.
C12_MoveWhileIdleIsNoOp ==
    [][/\ event' = "move" /\ ~isDrawing =>
             /\ UNCHANGED prsVars
             /\ currentPoints' = <<>>
             /\ currentPath' = <<>>
             /\ callbacks' = <<>>
       /\ event = "move" /\ ~isDrawing /\ event' = "grant" =>
             /\ Len(currentPoints') = 1
             /\ Len(ParsePath(currentPath')) = 1]_vars

C12_Witness ==
    /\ event = "move"
    /\ ~isDrawing
    /\ mounted = PRS
    /\ Len(completedPaths) = 1
    /\ currentPoints = <<>>
    /\ currentPath = <<>>

\* C13: an end or cancel event while no stroke is active (no point is
\* buffered) changes nothing, appends no empty path and does not invoke
\* the callback.
C13_EndWhileIdleIsNoOp ==
    [][event' \in EndEvents /\ (~Active \/ Len(Buffer) = 0) =>
          /\ UNCHANGED <<prsVars, csVars>>
          /\ callbacks' = <<>>
          /\ \A i \in 1..Len(Finalized') : Finalized'[i] # <<>>]_vars

C13_Witness ==
    /\ event \in EndEvents
    /\ callbacks = <<>>
    /\ Len(Finalized) = 2
    /\ Len(Buffer) = 0

\* C14: two calls of getDrawing() with no event between them return the
\* same output, and a call changes no state.
C14_GetDrawingIdempotent ==
    [][event' = "getSignatureData" =>
          /\ UNCHANGED <<prsVars, csVars, closure>>
          /\ event = "getSignatureData" => returned' = returned]_vars

C14_Witness ==
    /\ event = "getSignatureData"
    /\ Len(completedPaths) = 1
    /\ Len(currentPoints) = 2
    /\ returned = completedPaths[1] \o <<" ">> \o currentPath

\* C15: getDrawing() returns the finalized paths in stroke order followed
\* by the in-progress path when there is one, and the finalized paths alone
\* when there is none, with no empty trailing element.
C15_GetDrawingContent ==
    event = "getSignatureData" =>
        /\ returned = (IF currentPath = <<>> THEN JoinSpace(completedPaths)
                       ELSE After(completedPaths, currentPath))
        /\ ParsePath(returned) =
              ParsePath(JoinSpace(completedPaths)) \o ParsePath(currentPath)
        /\ Len(returned) > 0 => Last(returned) # " "

C15_Witness ==
    /\ event = "getSignatureData"
    /\ Len(completedPaths) = 2
    /\ currentPath = <<>>
    /\ returned = completedPaths[1] \o <<" ">> \o completedPaths[2]

\* C16: an End or Cancel for an active stroke of at least one point grows
\* the finalized list by exactly one element, the path of that stroke, and
\* leaves the component idle with empty buffer and empty in-progress path.
C16_EndFinalizesOne ==
    [][event' \in EndEvents /\ Active /\ Len(Buffer) >= 1 =>
          /\ Len(Finalized') = Len(Finalized) + 1
          /\ IsPrefix(Finalized, Finalized')
          /\ Last(Finalized') = pointsToSVGPath(Buffer)
          /\ ~Active'
          /\ Buffer' = <<>>
          /\ InProgress' = <<>>]_vars

C16_Witness ==
    /\ event \in {"terminate", "end"}
    /\ Len(Finalized) = 2
    /\ CountOf(ParsePath(Finalized[2]), "Q") = 1
    /\ ~Active
    /\ Buffer = <<>>

\* a path of exactly one stroke: a move-command first and no other
OneStroke(str) ==
    LET cmds == ParsePath(str)
    IN  /\ Len(cmds) >= 1
        /\ cmds[1].cmd = "M"
        /\ CountOf(cmds, "M") = 1

\* C17: every finalized path and the in-progress path come from the points
\* of one stroke only: each has a single move-command, the in-progress path
\* has one command per buffered point, a start leaves one point in the
\* buffer, and a finalization adds one path of the buffered points and
\* empties the buffer.
C17_OnePathPerStroke ==
    [][/\ \A i \in 1..Len(Finalized') : OneStroke(Finalized'[i])
       /\ Len(ParsePath(InProgress')) = Len(Buffer')
       /\ Len(Buffer') > 0 => OneStroke(InProgress')
       /\ event' = "grant" => Len(Buffer') = 1
       /\ Len(Buffer') > Len(Buffer) => Len(Buffer') = Len(Buffer) + 1
       /\ StrokeFinalized =>
             /\ Len(Finalized') = Len(Finalized) + 1
             /\ Len(ParsePath(Last(Finalized'))) = Len(Buffer)
             /\ Buffer' = <<>>]_vars

C17_Witness ==
    /\ Len(Finalized) = 2
    /\ Len(Buffer) = 1
    /\ OneStroke(Finalized[1])
    /\ OneStroke(Finalized[2])
    /\ OneStroke(InProgress)

\* C18: while a stroke is active the in-progress path is the generator
\* applied to the whole point buffer.
C18_PathOfWholeBuffer ==
    /\ Active => InProgress = pointsToSVGPath(Buffer)
    /\ CurvesFollow(Buffer, InProgress)

C18_Witness ==
    /\ mounted = CS
    /\ Active
    /\ Len(Buffer) = 3
    /\ event = "update"
    /\ Buffer[1] # Buffer[2]
    /\ Buffer[2] # Buffer[3]

\* C19: the only transitions are Idle->Active on start, Active->Active on
\* update and Active->Idle on end or cancel; the stroke is active exactly
\* when the buffer is non-empty, and an idle component holds no buffered
\* point and no in-progress path.
C19_StrokeStateMachine ==
    [][/\ Active' <=> Len(Buffer') > 0
       /\ ~Active' => Buffer' = <<>> /\ InProgress' = <<>>
       /\ event' # "clear" =>
             /\ ~Active /\ Active' => event' \in {"grant", "update"}
             /\ Active /\ ~Active' => event' \in EndEvents
             /\ Active /\ Active' /\ event' # "getSignatureData" =>
                   event' \in {"move", "update"}
             /\ event' = "grant" => ~Active]_vars

\* C20: a start event with point p leaves the buffer equal to [p] whatever
\* it held before, sets the in-progress path to the move-only path for p,
\* and leaves the finalized list unchanged.
C20_StartEffect ==
    [][event' = "grant" =>
          \E p \in Points :
              /\ currentPoints' = <<p>>
              /\ ParsePath(currentPath') = <<MoveTo(p)>>
              /\ completedPaths' = completedPaths
              /\ isDrawing']_vars

C20_Witness ==
    /\ event = "grant"
    /\ currentPoints = <<Pt(10, 10)>>
    /\ currentPath = <<"M", "1", "0", ",", "1", "0">>
    /\ Len(completedPaths) = 2

\* C21: the buffer records every accepted sample in the order received,
\* without deduplication or filtering: a start leaves one point, every
\* accepted update makes the buffer one point longer and keeps what it held,
\* and a sample at the position p of the previous one adds a curve-command
\* with anchor p and destination p.
C21_EverySampleRecorded ==
    [][/\ event' = "grant" => Len(Buffer') = 1
       /\ (event' = "move" /\ isDrawing) \/ event' = "update" =>
              /\ Len(Buffer') = Len(Buffer) + 1
              /\ IsPrefix(Buffer, Buffer')
              /\ Last(Buffer') \in Points
              /\ Len(ParsePath(InProgress')) = Len(Buffer')
              /\ Len(Buffer) >= 1 /\ Last(Buffer') = Last(Buffer) =>
                     Last(ParsePath(InProgress')) =
                         QuadraticCurveTo(Last(Buffer), Last(Buffer), Last(Buffer))]_vars

\* begin(5,5), append(5,5): the second sample is kept, M5,5Q5,5 5,5
C21_Witness ==
    /\ event = "move"
    /\ currentPoints = <<Pt(5, 5), Pt(5, 5)>>
    /\ ParsePath(currentPath) =
         <<MoveTo(Pt(5, 5)), [cmd |-> "Q", args |-> <<10, 10, 10, 10>>]>>

\* C22: the path CustomSignature builds by appending one segment per sample
\* is, after every update, the string PanResponderSignature's generator
\* builds from scratch for the same points, and so is the path a stroke is
\* finalized as.
C22_IncrementalIsRebuild ==
    [][mounted = CS =>
          /\ event' = "update" =>
                \E p \in Points :
                    pathData' = pointsToSVGPath(Append(currentPathRef, p))
          /\ event' = "end" /\ Len(paths') > Len(paths) =>
                Last(paths') = pointsToSVGPath(currentPathRef)]_vars

C22_Witness ==
    /\ mounted = CS
    /\ event = "update"
    /\ currentPathRef = <<Pt(0, 0), Pt(10, 0), Pt(5, 5)>>
    /\ pathData = pointsToSVGPath(currentPathRef)
    /\ Len(ParsePath(pathData)) = 3

\* C23: an end event that is processed by handlers of an old render (the
\* re-render after the start or after the last update has not happened yet)
\* still finalizes the stroke with all of its points, reports it, and leaves
\* no point and no path behind for the next stroke.
C23_EndBeforeRenderFinalizes ==
    [][event' \in EndEvents /\ Len(Buffer) > 0 /\ closure # Current =>
          /\ Len(Finalized') = Len(Finalized) + 1
          /\ Last(Finalized') = pointsToSVGPath(Buffer)
          /\ callbacks' = <<JoinSpace(Finalized')>>
          /\ Buffer' = <<>>
          /\ InProgress' = <<>>]_vars

\* C24: the callback is never given an empty string: every payload is
\* non-empty and begins with a move-command.
C24_PayloadNeverEmpty ==
    \A i \in 1..Len(callbacks) :
        /\ Len(callbacks[i]) > 0
        /\ Head(callbacks[i]) = "M"
        /\ ParsePath(callbacks[i])[1].cmd = "M"

C24_Witness ==
    /\ event \in EndEvents
    /\ Len(callbacks) = 1
    /\ Len(ParsePath(callbacks[1])) >= 2
    /\ ParsePath(callbacks[1])[1] = MoveTo(Pt(1, 1))

\* C25: the Clear of a host screen only sets the screen's signatureData to
\* the empty string and leaves the component's buffer, in-progress path and
\* finalized strokes as they are; so the next stroke-end notification,
\* also the one after a Clear, carries every stroke drawn before it
\* followed by the new one.
C25_ScreenClearKeepsStrokes ==
    [][/\ event' = "screenClear" =>
              /\ signatureData' = <<>>
              /\ UNCHANGED <<prsVars, csVars, closure>>
       /\ StrokeFinalized =>
              /\ IsPrefix(Finalized, Finalized')
              /\ signatureData' = JoinSpace(Finalized')
              /\ ParsePath(signatureData') =
                    ParsePath(JoinSpace(Finalized))
                        \o ParsePath(pointsToSVGPath(Buffer))]_vars

\* a stroke was drawn and Clear was pressed: the stroke is still there
C25_Witness ==
    /\ event = "screenClear"
    /\ signatureData = <<>>
    /\ Len(Finalized) = 1
    /\ ParsePath(Finalized[1]) = <<MoveTo(Pt(2, 2))>>

\* C26: Copy SVG writes to the clipboard only when signatureData is not
\* empty, and the path data of the document written is then exactly
\* signatureData; when it is empty the clipboard is unchanged and the
\* 'No Signature' / 'Error' alert is shown.
C26_CopyOnlyWhenSigned ==
    [][event' = "copySVG" =>
          IF signatureData # <<>>
          THEN /\ clipboard'.d = signatureData
               /\ alert' \in {<<"Success">>, <<"Copied!">>}
          ELSE /\ clipboard' = clipboard
               /\ alert' \in {<<"No Signature">>, <<"Error">>}]_vars

\* a drawing was copied, the screen was cleared, and Copy was pressed again
C26_Witness ==
    /\ event = "copySVG"
    /\ signatureData = <<>>
    /\ alert \in {<<"No Signature">>, <<"Error">>}
    /\ Len(clipboard.d) > 0
    /\ clipboard.d = JoinSpace(Finalized)

\* C27: the document an export writes wraps the path data last notified
\* (the join of the finalized strokes) and carries the stroke colour and
\* width the component is configured with at the time of the export, on
\* every screen that exports SVG.
C27_ExportMatchesComponent ==
    [][event' = "copySVG" /\ signatureData # <<>> /\ mounted # CANVAS =>
          /\ clipboard'.d = JoinSpace(Finalized)
          /\ clipboard'.stroke = RenderedStroke.stroke
          /\ clipboard'.strokeWidth = RenderedStroke.strokeWidth]_vars

\* an export on the enhanced screen after both style buttons were used
C27_Witness ==
    /\ event = "copySVG"
    /\ host = EnhancedCustomSignatureScreen
    /\ clipboard = [d |-> signatureData, stroke |-> "#2196F3", strokeWidth |-> 5]
    /\ Len(Finalized) = 2

\* C28: the style is fixed for a drawing session: while finalized strokes
\* exist, the stroke colour and width they are rendered with and exported
\* with do not change.
C28_StyleFixedForSession ==
    [][Len(Finalized) > 0 /\ Len(Finalized') > 0 =>
          /\ RenderedStroke' = RenderedStroke
          /\ SvgDocument(<<>>)' = SvgDocument(<<>>)]_vars

\* C29: in CanvasSignature the drawing context stays null, so after any
\* sequence of grant, move, release and terminate events every handler has
\* returned early: isDrawing is false, lastPoint is null and
\* onSignatureChange has not been called.
C29_CanvasInert ==
    mounted = CANVAS =>
        /\ contextRef = "null"
        /\ isDrawing = FALSE
        /\ lastPoint = <<>>
        /\ callbacks = <<>>
        /\ ~closure.isDrawing

C29_Witness ==
    /\ mounted = CANVAS
    /\ event = "canvasRelease"
    /\ contextRef = "null"
    /\ ~isDrawing

====
